---- MODULE Spec2Model ----
(***************************************************************************)
(* State-machine model of the ORSO importer of RasCAL-2                    *)
(* (rascal2/core/orso_importer.py).                                        *)
(*                                                                         *)
(* Text is modelled as a sequence of one-character strings, so that        *)
(* lower(), startswith(), strip(), split()/join() and substring tests are  *)
(* computed, not assumed.  Numbers (SLD values, bounds, reflectivities)    *)
(* are integers in a unit in which 5% of every catalogue value is an       *)
(* integer, so that 0.95*v and 1.05*v are exact.                           *)
(***************************************************************************)
EXTENDS Integers, Sequences, FiniteSets, TLC

VARIABLES
    project,        \* the rat.Project being populated: attribute name -> list
    pc,             \* position of import_ort_to_project
    n,              \* number of datasets of the loaded ORSO file
    i,              \* 1-based index of the dataset being processed
    ds,             \* the dataset being processed
    cname,          \* local cname / data_name
    data_arr,       \* local data_arr (after the Nx3 upgrade)
    bulk_in_name, bulk_out_name,    \* locals
    bulk_in_sld, bulk_out_sld,      \* locals (None or a float)
    bulk_in_ref, bulk_out_ref,      \* locals
    sources,        \* history: the datasets read so far, in file order
    call,           \* history: the last call of _ensure_bulk_parameter_exists
    ncalls,         \* history: the number of calls of it made so far
    error,          \* the exception that ended the call, NoError while there is none
    base,           \* history: base_project as it was passed in
    fs,             \* the file system: project folder, data folder, provenance copy
    app             \* the application around the importer: model, dialog, worker

vars == <<project, pc, n, i, ds, cname, data_arr, bulk_in_name, bulk_out_name,
          bulk_in_sld, bulk_out_sld, bulk_in_ref, bulk_out_ref, sources, call, ncalls,
          error, base, fs, app>>

(***************************************************************************)
(* Bounds of the model.                                                    *)
(***************************************************************************)
MaxDatasets == 2    \* datasets per ORSO file
MaxCalls == 2       \* calls of the merge made one after another on one project

(***************************************************************************)
(* Python values.                                                          *)
(***************************************************************************)
None == [some |-> FALSE]
Some(x) == [some |-> TRUE, val |-> x]

Min2(a, b) == IF a <= b THEN a ELSE b
Max2(a, b) == IF a >= b THEN a ELSE b
Abs(a) == IF a < 0 THEN -a ELSE a

\* float('nan'), as a number no catalogue value equals; numpy's ufuncs return nan
\* whenever an operand is nan
NaN == -999999
NpAbs(a) == IF a = NaN THEN NaN ELSE Abs(a)
NpMaximum(a, b) == IF a = NaN \/ b = NaN THEN NaN ELSE Max2(a, b)

\* 0.05 * a (exact: every reflectivity of the model is a multiple of 20)
Times005(a) == IF a = NaN THEN NaN ELSE (5 * a) \div 100

(***************************************************************************)
(* str methods.                                                            *)
(***************************************************************************)
Whitespace == {" ", "\t"}

Lower(c) ==
    CASE c = "A" -> "a" [] c = "B" -> "b" [] c = "D" -> "d" [] c = "H" -> "h"
      [] c = "I" -> "i" [] c = "L" -> "l" [] c = "M" -> "m" [] c = "O" -> "o"
      [] c = "S" -> "s" [] c = "U" -> "u" [] c = "W" -> "w"
      [] OTHER -> c

LowerStr(s) == [k \in 1..Len(s) |-> Lower(s[k])]

StartsWith(s, p) == Len(s) >= Len(p) /\ SubSeq(s, 1, Len(p)) = p

\* Python's `p in s` for strings
Contains(s, p) == \E k \in 0..(Len(s) - Len(p)) : SubSeq(s, k + 1, k + Len(p)) = p

RECURSIVE LStrip(_)
LStrip(s) == IF s # <<>> /\ Head(s) \in Whitespace THEN LStrip(Tail(s)) ELSE s

RECURSIVE RStrip(_)
RStrip(s) ==
    IF s # <<>> /\ s[Len(s)] \in Whitespace THEN RStrip(SubSeq(s, 1, Len(s) - 1)) ELSE s

Strip(s) == RStrip(LStrip(s))

\* s.split(): the maximal runs of non-whitespace characters, in order
RECURSIVE SplitWords(_, _, _)
SplitWords(s, cur, acc) ==
    IF s = <<>> THEN (IF cur = <<>> THEN acc ELSE Append(acc, cur))
    ELSE IF Head(s) \in Whitespace
         THEN SplitWords(Tail(s), <<>>, IF cur = <<>> THEN acc ELSE Append(acc, cur))
         ELSE SplitWords(Tail(s), Append(cur, Head(s)), acc)

Split(s) == SplitWords(s, <<>>, <<>>)

\* " ".join(words)
RECURSIVE Join(_)
Join(words) ==
    IF words = <<>> THEN <<>>
    ELSE IF Len(words) = 1 THEN words[1]
    ELSE words[1] \o <<" ">> \o Join(Tail(words))

\* f"{i}" for the small non-negative integers the model reaches
Digits(k) == <<CASE k = 0 -> "0" [] k = 1 -> "1" [] k = 2 -> "2" [] k = 3 -> "3"
                 [] k = 4 -> "4" [] OTHER -> "9">>

(***************************************************************************)
(* orso_importer.py, module level helpers.                                 *)
(***************************************************************************)
KNOWN_BULKS == << <<"D","2","O">>, <<"H","2","O">>, <<"A","u","M","W">>,
                  <<"S","i","M","W">>, <<"S","M","W">>, <<"S","i">>,
                  <<"A","i","r">> >>

\* _sanitize_name(s, fallback); s is None or a str
SanitizeName(s, fallback) ==
    LET s0 == IF s.some THEN s.val ELSE <<>>     \* str(s or "")
        s1 == Strip(s0)
        s2 == Join(Split(s1))
    IN  IF s2 # <<>> THEN s2 ELSE fallback

\* the first entry kb of KNOWN_BULKS with kb.lower() in s.lower(), or None
FirstKnownBulk(s) ==
    LET hits == {k \in 1..Len(KNOWN_BULKS) :
                    Contains(LowerStr(s), LowerStr(KNOWN_BULKS[k]))}
    IN  IF hits = {} THEN None
        ELSE Some(KNOWN_BULKS[CHOOSE k \in hits : \A m \in hits : k <= m])

\* isinstance(x, str) and x.strip()
IsNonBlankStr(x) == x.some /\ Strip(x.val) # <<>>

\* a variant that looks at the layer's original name before the material name
InferBulkNameFromLayer_OrigFirst(layer_obj, fallback) ==
    LET mat      == layer_obj.material
        mat_name == IF mat.some THEN mat.val.name ELSE None
        orig     == layer_obj.original_name
        formula  == IF mat.some THEN mat.val.formula ELSE None
        byName   == IF IsNonBlankStr(mat_name) THEN FirstKnownBulk(mat_name.val) ELSE None
        byOrig   == IF IsNonBlankStr(orig) THEN FirstKnownBulk(orig.val) ELSE None
        f        == LowerStr(formula.val)
    IN  IF byOrig.some THEN byOrig.val
        ELSE IF byName.some THEN byName.val
        ELSE IF IsNonBlankStr(formula) /\ Contains(f, <<"d","2","o">>) THEN <<"D","2","O">>
        ELSE IF IsNonBlankStr(formula) /\ Contains(f, <<"h","2","o">>) THEN <<"H","2","O">>
        ELSE fallback

\* _infer_bulk_name_from_layer(layer_obj, fallback)
InferBulkNameFromLayer(layer_obj, fallback) ==
    LET mat      == layer_obj.material
        mat_name == IF mat.some THEN mat.val.name ELSE None
        orig     == layer_obj.original_name
        formula  == IF mat.some THEN mat.val.formula ELSE None
        byName   == IF IsNonBlankStr(mat_name) THEN FirstKnownBulk(mat_name.val) ELSE None
        byOrig   == IF IsNonBlankStr(orig) THEN FirstKnownBulk(orig.val) ELSE None
        f        == LowerStr(formula.val)
    IN  IF byName.some THEN byName.val
        ELSE IF byOrig.some THEN byOrig.val
        ELSE IF IsNonBlankStr(formula) /\ Contains(f, <<"d","2","o">>) THEN <<"D","2","O">>
        ELSE IF IsNonBlankStr(formula) /\ Contains(f, <<"h","2","o">>) THEN <<"H","2","O">>
        ELSE fallback

\* _safe_get_sld(material): the real part of material.get_sld(), 0.0 when the
\* material is None, has no get_sld, or get_sld raises
SafeGetSld(material) ==
    IF material.some /\ material.val.sld.kind = "value" THEN material.val.sld.val
    ELSE 0

(***************************************************************************)
(* Parameter rows.  A row is a record [name, min, value, max, fit].        *)
(* Assigning a field of a row triggers validation of the row (see the      *)
(* note in clamp_row); an assignment that would leave the row with         *)
(* min <= value <= max violated raises and leaves the row as it was.       *)
(***************************************************************************)
RowValid(row) == row.min <= row.value /\ row.value <= row.max

\* row.<field> = x  ->  [raised, row]
SetAttr(row, field, x) ==
    LET new == [row EXCEPT ![field] = x]
    IN  IF RowValid(new) THEN [raised |-> FALSE, row |-> new]
        ELSE [raised |-> TRUE, row |-> row]

\* v * 0.95 and v * 1.05 (exact: every v of the model is a multiple of 20)
Times095(v) == (v * 95) \div 100
Times105(v) == (v * 105) \div 100

\* a variant that takes 0.95*v for the lower bound whatever the sign of v
BulkLo_Unordered(v) == Times095(v)

BulkLo(v) == Min2(Times095(v), Times105(v))
BulkHi(v) == Max2(Times095(v), Times105(v))

\* rat.Parameter(name=ref_name, min=lo, value=v, max=hi, fit=False)
NewBulkParam(ref_name, v) ==
    [name |-> ref_name, min |-> BulkLo(v), value |-> v, max |-> BulkHi(v), fit |-> FALSE]

\* ref_name of _ensure_bulk_parameter_exists
SLDPrefix == <<"S","L","D"," ">>
RefName(bulk_name) ==
    IF StartsWith(LowerStr(bulk_name), <<"s","l","d"," ">>) THEN bulk_name
    ELSE SLDPrefix \o bulk_name

\* attr_candidates of _ensure_bulk_parameter_exists
AttrCandidates(which) ==
    IF LowerStr(which) \in { <<"i","n">>, <<"b","u","l","k","i","n">>,
                             <<"b","u","l","k","_","i","n">> }
    THEN <<"bulk_in", "bulkIn">>
    ELSE <<"bulk_out", "bulkOut">>

\* the attribute holding the container: first candidate the project has, or None
TargetAttr(proj, which) ==
    LET c == AttrCandidates(which)
    IN  IF c[1] \in DOMAIN proj THEN Some(c[1])
        ELSE IF c[2] \in DOMAIN proj THEN Some(c[2])
        ELSE None

\* the in-place update of an existing row (the three guarded assignments)
UpdateRow(row, v) ==
    LET a1 == IF "min" \in DOMAIN row THEN SetAttr(row, "min", BulkLo(v))
              ELSE [raised |-> FALSE, row |-> row]
        a2 == IF "max" \in DOMAIN a1.row THEN SetAttr(a1.row, "max", BulkHi(v))
              ELSE [raised |-> FALSE, row |-> a1.row]
        a3 == IF "value" \in DOMAIN a2.row THEN SetAttr(a2.row, "value", v)
              ELSE [raised |-> FALSE, row |-> a2.row]
    IN  IF a1.raised THEN a1
        ELSE IF a2.raised THEN a2
        ELSE a3

\* index of the first row of target whose name is ref_name, 0 if there is none
FirstRowNamed(target, ref_name) ==
    LET hits == {k \in 1..Len(target) : target[k].name = ref_name}
    IN  IF hits = {} THEN 0 ELSE CHOOSE k \in hits : \A m \in hits : k <= m

\* a variant that reads an unknown SLD as 0.0 instead of returning
UpdateExistingRow_NoneAsZero(target, ref_name, sld_value) ==
    LET k   == FirstRowNamed(target, ref_name)
        v   == IF sld_value.some THEN sld_value.val ELSE 0
        upd == UpdateRow(target[k], v)
    IN  IF k = 0 THEN [returned |-> FALSE, target |-> target]
        ELSE [returned |-> ~upd.raised, target |-> [target EXCEPT ![k] = upd.row]]

\* lines 107-126: the search for an existing row and its update.
\*   -> [returned, target]: returned says whether the function returned here;
\*   an exception of the update is swallowed and the function goes on
UpdateExistingRow(target, ref_name, sld_value) ==
    LET k   == FirstRowNamed(target, ref_name)
        upd == UpdateRow(target[k], sld_value.val)
    IN  IF k = 0 THEN [returned |-> FALSE, target |-> target]
        ELSE IF ~sld_value.some THEN [returned |-> TRUE, target |-> target]
        ELSE [returned |-> ~upd.raised, target |-> [target EXCEPT ![k] = upd.row]]

\* a variant that creates the row from 0.0 when the SLD is unknown
CreateRow_NoneAsZero(target, ref_name, sld_value) ==
    Append(target, NewBulkParam(ref_name, IF sld_value.some THEN sld_value.val ELSE 0))

\* a variant that never creates the row
CreateRow_Never(target, ref_name, sld_value) == target

\* lines 128-140: create the row, only if the SLD is known
CreateRow(target, ref_name, sld_value) ==
    IF ~sld_value.some THEN target
    ELSE Append(target, NewBulkParam(ref_name, sld_value.val))

\* _ensure_bulk_parameter_exists(project, which, bulk_name, sld_value)
\*   -> [project, ret]
EnsureBulkParameterExists(proj, which, bulk_name, sld_value) ==
    LET ref_name == RefName(bulk_name)
        attr     == TargetAttr(proj, which)
        found    == UpdateExistingRow(proj[attr.val], ref_name, sld_value)
        final    == IF found.returned THEN found.target
                    ELSE CreateRow(found.target, ref_name, sld_value)
    IN  IF ~attr.some THEN [project |-> proj, ret |-> ref_name]
        ELSE [project |-> [proj EXCEPT ![attr.val] = final], ret |-> ref_name]

(***************************************************************************)
(* _clamp_all_parameter_values                                             *)
(***************************************************************************)
\* a variant that leaves every row as it is
ClampRow_Skip(row) == [raised |-> FALSE, row |-> row]

\* a variant that only clamps values above the range
ClampRow_UpperOnly(row) ==
    IF ~({"value", "min", "max"} \subseteq DOMAIN row) THEN [raised |-> FALSE, row |-> row]
    ELSE IF row.value > row.max THEN SetAttr(row, "value", row.max)
    ELSE [raised |-> FALSE, row |-> row]

\* clamp_row(row) -> [raised, row]
ClampRow(row) ==
    IF ~({"value", "min", "max"} \subseteq DOMAIN row) THEN [raised |-> FALSE, row |-> row]
    ELSE LET v  == row.value
             mn == IF row.min > row.max THEN row.max ELSE row.min   \* swap if corrupt
             mx == IF row.min > row.max THEN row.min ELSE row.max
         IN  IF v < mn THEN SetAttr(row, "value", mn)
             ELSE IF v > mx THEN SetAttr(row, "value", mx)
             ELSE [raised |-> FALSE, row |-> row]

\* the inner loop `for row in obj: clamp_row(row)`, from row k on
RECURSIVE ClampList(_, _)
ClampList(rows, k) ==
    IF k > Len(rows) THEN [raised |-> FALSE, rows |-> rows]
    ELSE LET c == ClampRow(rows[k])
         IN  IF c.raised THEN [raised |-> TRUE, rows |-> rows]
             ELSE ClampList([rows EXCEPT ![k] = c.row], k + 1)

\* dir(project): the public attributes, in sorted order
DirOrder == <<"background_parameters", "backgrounds", "bulkIn", "bulkOut", "bulk_in",
              "bulk_out", "contrasts", "data", "layers", "parameters",
              "resolution_parameters", "resolutions", "scalefactors">>

\* the outer loop `for attr in dir(project)`, from attribute k on
RECURSIVE ClampFrom(_, _)
ClampFrom(proj, k) ==
    IF k > Len(DirOrder) THEN [raised |-> FALSE, project |-> proj]
    ELSE IF DirOrder[k] \notin DOMAIN proj THEN ClampFrom(proj, k + 1)
    ELSE LET c == ClampList(proj[DirOrder[k]], 1)
         IN  IF c.raised THEN [raised |-> TRUE, project |-> [proj EXCEPT ![DirOrder[k]] = c.rows]]
             ELSE ClampFrom([proj EXCEPT ![DirOrder[k]] = c.rows], k + 1)

\* _clamp_all_parameter_values(project) -> [raised, project]
ClampAllParameterValues(proj) == ClampFrom(proj, 1)

(***************************************************************************)
(* Inputs: resolved layers, physical models, data arrays, datasets.        *)
(***************************************************************************)
SldValue(v) == [kind |-> "value", val |-> v]
SldRaises == [kind |-> "raises"]      \* material.get_sld() raises
SldAbsent == [kind |-> "absent"]      \* the material has no get_sld

Material(name, formula, sld) == Some([name |-> name, formula |-> formula, sld |-> sld])
Layer(material, original_name) == [material |-> material, original_name |-> original_name]

LayerAir     == Layer(Material(Some(<<"a","i","r">>), None, SldValue(0)), None)
LayerD2O     == Layer(Material(None, Some(<<"D","2","O">>), SldValue(40)), None)
LayerH2O     == Layer(Material(Some(<<"w","a","t","e","r">>), Some(<<"H","2","O">>), SldValue(-20)), None)
LayerSilicon == Layer(Material(Some(<<"S","i","l","i","c","o","n">>), None, SldValue(20)), None)
LayerD2OBad  == Layer(Material(Some(<<"d","2","o">>), None, SldRaises), None)
LayerAirBare == Layer(Material(Some(<<"A","i","r">>), None, SldAbsent), None)
LayerBuffer  == Layer(None, Some(<<"h","2","o"," ","b","u","f">>))
LayerLipid   == Layer(Material(Some(<<"l","i","p","i","d">>), None, SldValue(20)), Some(<<"t","a","i","l","s">>))

ModelNone == [kind |-> "none"]                        \* sample.model is None
ModelRaises == [kind |-> "raises"]                    \* resolve_to_layers() raises
ModelLayers(ls) == [kind |-> "layers", layers |-> ls]

Models ==
    { ModelNone, ModelRaises,
      ModelLayers(<<>>),
      ModelLayers(<<LayerD2O>>),
      ModelLayers(<<LayerAir, LayerD2O>>),
      ModelLayers(<<LayerAir, LayerLipid, LayerH2O>>),
      ModelLayers(<<LayerSilicon, LayerLipid, LayerD2OBad>>),
      ModelLayers(<<LayerAirBare, LayerBuffer>>),
      ModelLayers(<<LayerLipid, LayerLipid>>) }

\* np.asarray(ds.data): a 2-D array is its rows; anything else only has its ndim
Array2D(rows) == [ndim |-> 2, ncols |-> Len(rows[1]), rows |-> rows]
Array1D == [ndim |-> 1, ncols |-> 0, rows |-> <<>>]

Arrays ==
    { Array2D(<< <<1, 40>>, <<2, 0>>, <<3, -20>>, <<4, NaN>> >>),
      Array2D(<< <<1, 40, 3>>, <<2, 20, 0>> >>),
      Array2D(<< <<1, 40, 3, 7>> >>),
      Array2D(<< <<1>>, <<2>> >>),
      Array1D }

SampleNames == { None, Some(<<>>), Some(<<" ","\t">>), Some(<<" ","a","\t"," ","b"," ">>), Some(<<"a"," ","b">>) }

DefaultArray == Array2D(<< <<1, 40, 3>>, <<2, 20, 0>> >>)

\* the datasets an ORSO file of the model may hold
Datasets ==
    {[name |-> nm, data |-> DefaultArray, model |-> ModelNone] : nm \in SampleNames}
    \cup {[name |-> Some(<<"a"," ","b">>), data |-> a, model |-> ModelNone] : a \in Arrays}
    \cup {[name |-> None, data |-> DefaultArray, model |-> m] : m \in Models}
    \cup {[name |-> Some(<<"H","2","O"," ","x">>), data |-> DefaultArray, model |-> ModelRaises]}

NoDataset == [name |-> None, data |-> Array1D, model |-> ModelNone]

(***************************************************************************)
(* The base project: MainWindowModel.create_project.                       *)
(***************************************************************************)
Background1 == <<"B","a","c","k","g","r","o","u","n","d"," ","1">>
Resolution1 == <<"R","e","s","o","l","u","t","i","o","n"," ","1">>
Scalefactor1 == <<"S","c","a","l","e","f","a","c","t","o","r"," ","1">>
SLDAir == <<"S","L","D"," ","A","i","r">>
SLDD2O == <<"S","L","D"," ","D","2","O">>
Simulation == <<"S","i","m","u","l","a","t","i","o","n">>
DefaultContrast == <<"D","e","f","a","u","l","t"," ","C","o","n","t","r","a","s","t">>

Param(name, mn, v, mx, fit) ==
    [name |-> name, min |-> mn, value |-> v, max |-> mx, fit |-> fit]

\* (min, value, max) of the rows a base project may hold: validated rows, and rows
\* whose value lies outside [min, max] (the state _clamp_all_parameter_values repairs)
BaseTriples == { <<0, 0, 0>>, <<20, 40, 40>>, <<0, 20, 40>>, <<20, 0, 40>>, <<0, 40, 20>> }

BaseRows(name) == {Param(name, t[1], t[2], t[3], FALSE) : t \in BaseTriples}

BaseContainers(name) == {<<>>} \cup {<<r>> : r \in BaseRows(name)}

\* rat.Project(name=...) plus the default contrast appended by create_project
BaseProject(bin, bout, sf) ==
    [ bulk_in  |-> bin,
      bulk_out |-> bout,
      parameters |-> <<Param(<<"S","u","b","s","t","r","a","t","e"," ","R","o","u","g","h","n","e","s","s">>, 20, 60, 100, TRUE)>>,
      scalefactors |-> <<sf>>,
      background_parameters |-> <<Param(<<"B","a","c","k","g","r","o","u","n","d"," ","P","a","r","a","m"," ","1">>, 0, 20, 40, FALSE)>>,
      resolution_parameters |-> <<Param(<<"R","e","s","o","l","u","t","i","o","n"," ","P","a","r","a","m"," ","1">>, 20, 60, 100, FALSE)>>,
      backgrounds |-> <<[name |-> Background1, source |-> <<"B","a","c","k","g","r","o","u","n","d"," ","P","a","r","a","m"," ","1">>]>>,
      resolutions |-> <<[name |-> Resolution1, source |-> <<"R","e","s","o","l","u","t","i","o","n"," ","P","a","r","a","m"," ","1">>]>>,
      layers |-> <<>>,
      data |-> <<[name |-> Simulation, data |-> Array1D]>>,
      contrasts |-> <<[name |-> DefaultContrast, background |-> Background1,
                       resolution |-> Resolution1, scalefactor |-> Scalefactor1,
                       bulk_in |-> SLDAir, bulk_out |-> SLDD2O, data |-> Simulation]>> ]

\* a layer a project passed as base_project may already hold
PlaceholderLayer ==
    [name |-> <<"L","a","y","e","r"," ","1">>, thickness |-> <<"T","h","i","c","k","n","e","s","s"," ","1">>, SLD |-> <<"S","L","D"," ","1">>,
     roughness |-> <<"S","u","b","s","t","r","a","t","e"," ","R","o","u","g","h","n","e","s","s">>]

\* the base projects a call may be given: every pair of bulk containers with a
\* valid scalefactor row, and a few projects whose scalefactor value lies outside
\* its range or that already hold a layer
BaseProjects ==
    {BaseProject(bin, bout, Param(Scalefactor1, 0, 20, 40, FALSE)) :
        bin \in BaseContainers(SLDAir), bout \in BaseContainers(SLDD2O)}
    \cup {BaseProject(c[1], c[2], Param(Scalefactor1, 20, 0, 40, FALSE)) :
            c \in { << <<Param(SLDAir, 0, 0, 0, FALSE)>>, <<Param(SLDD2O, 20, 40, 40, FALSE)>> >>,
                    << <<Param(SLDAir, 0, 40, 20, FALSE)>>, <<>> >> }}
    \cup {[BaseProject(<<Param(SLDAir, 0, 0, 0, FALSE)>>, <<Param(SLDD2O, 20, 40, 40, FALSE)>>,
                        Param(Scalefactor1, 0, 20, 40, FALSE))
            EXCEPT !.layers = <<PlaceholderLayer>>]}

NoCall == [made |-> FALSE]

NoError == [type |-> "none", message |-> <<>>]

\* the exceptions of the file system calls (mkdir, shutil.copy2, open)
OSError == [type |-> "OSError", message |-> <<>>]

\* the exception load_orso raises on a file it cannot parse
OrsoParseError == [type |-> "ParseError", message |-> <<>>]

\* the pydantic error of an assignment that breaks min <= value <= max
ValidationError == [type |-> "ValidationError", message |-> <<>>]

\* before the call nothing is known of the folders; same: whether the canonical
\* paths of the source and of <project_folder>/data/<name> are identical;
\* source_ok: whether the source file exists and can be read
FsInit == [dirs |-> FALSE, same |-> FALSE, source_ok |-> FALSE, copied |-> FALSE]

\* no application around the call
NoApp == [origin |-> "call"]

InitLocals ==
    /\ n = 0 /\ i = 0 /\ ds = NoDataset
    /\ cname = <<>> /\ data_arr = Array1D
    /\ bulk_in_name = <<>> /\ bulk_out_name = <<>>
    /\ bulk_in_sld = None /\ bulk_out_sld = None
    /\ bulk_in_ref = <<>> /\ bulk_out_ref = <<>>
    /\ sources = <<>>
    /\ call = NoCall
    /\ ncalls = 0
    /\ error = NoError
    /\ fs = FsInit

Init ==
    /\ project \in BaseProjects
    /\ base = project
    /\ pc = "start"
    /\ app = NoApp
    /\ InitLocals

(***************************************************************************)
(* import_ort_to_project, step by step.                                    *)
(***************************************************************************)
locals == <<ds, cname, data_arr, bulk_in_name, bulk_out_name, bulk_in_sld, bulk_out_sld,
            bulk_in_ref, bulk_out_ref>>

\* a variant that copies whatever the two paths are
CopyNeeded_Always(same) == TRUE

\* line 171: copied_ort.resolve() != ort_file
CopyNeeded(same) == ~same

\* lines 156-172: the two folders and the provenance copy
PrepareFiles ==
    /\ pc = "start"
    /\ \E mkdir_ok \in BOOLEAN, same \in BOOLEAN, source_ok \in BOOLEAN :
         \* a source that already lies in <project_folder>/data has its folders
         /\ (same /\ source_ok) => mkdir_ok
         /\ IF ~mkdir_ok
            THEN \* _ensure_dir raises
                 /\ fs' = [fs EXCEPT !.same = same, !.source_ok = source_ok]
                 /\ error' = OSError
                 /\ pc' = "raised"
            ELSE IF CopyNeeded(same) /\ ~source_ok
            THEN \* shutil.copy2 raises
                 /\ fs' = [dirs |-> TRUE, same |-> same, source_ok |-> source_ok,
                           copied |-> FALSE]
                 /\ error' = OSError
                 /\ pc' = "raised"
            ELSE /\ fs' = [dirs |-> TRUE, same |-> same, source_ok |-> source_ok,
                           copied |-> CopyNeeded(same)]
                 /\ error' = error
                 /\ pc' = "clear"
    /\ UNCHANGED <<project, n, i, locals, sources, call, ncalls, base, app>>

\* whether the file load_orso opens, <project_folder>/data/<name>, can be read
CopiedOrtReadable(f) == f.copied \/ (f.same /\ f.source_ok)

\* lines 174-181: clearing the defaults of create_project, then load_orso
ClearAndLoad ==
    /\ pc = "clear"
    /\ project' = [project EXCEPT !.contrasts = <<>>, !.data = <<>>]
    /\ \E parsed \in BOOLEAN, count \in 0..MaxDatasets :
         IF ~CopiedOrtReadable(fs)
         THEN /\ error' = OSError
              /\ pc' = "raised"
              /\ UNCHANGED <<n, i>>
         ELSE IF ~parsed
         THEN /\ error' = OrsoParseError
              /\ pc' = "raised"
              /\ UNCHANGED <<n, i>>
         ELSE /\ n' = count
              /\ i' = 1
              /\ error' = error
              /\ pc' = "loop"
    /\ UNCHANGED <<locals, sources, call, ncalls, base, fs, app>>

\* a variant that numbers the datasets from 0
ContrastFallback_ZeroBased(k) == <<"C","o","n","t","r","a","s","t"," ">> \o Digits(k - 1)

\* "Contrast {i}"
ContrastFallback(k) == <<"C","o","n","t","r","a","s","t"," ">> \o Digits(k)

\* a variant without the 1e-12 floor of the synthesized uncertainty
EnsureNx3_NoFloor(arr) ==
    IF arr.ncols = 2
    THEN [ndim |-> 2, ncols |-> 3,
          rows |-> [k \in 1..Len(arr.rows) |->
                      <<arr.rows[k][1], arr.rows[k][2], Times005(NpAbs(arr.rows[k][2]))>>]]
    ELSE [ndim |-> 2, ncols |-> 3,
          rows |-> [k \in 1..Len(arr.rows) |-> SubSeq(arr.rows[k], 1, 3)]]

\* lines 198-205: ensure Nx3 (1e-12 is one unit of the data arrays)
EnsureNx3(arr) ==
    IF arr.ncols = 2
    THEN [ndim |-> 2, ncols |-> 3,
          rows |-> [k \in 1..Len(arr.rows) |->
                      <<arr.rows[k][1], arr.rows[k][2],
                        NpMaximum(1, Times005(NpAbs(arr.rows[k][2])))>>]]
    ELSE [ndim |-> 2, ncols |-> 3,
          rows |-> [k \in 1..Len(arr.rows) |-> SubSeq(arr.rows[k], 1, 3)]]

FallbackBulkIn == <<"A","i","r">>
FallbackBulkOut == <<"D","2","O">>

\* a variant that takes the bulks from a stack of one layer too
InferBulks_OneLayer(model) ==
    IF model.kind = "layers" /\ Len(model.layers) >= 1
    THEN LET bulk_in_layer  == model.layers[1]
             bulk_out_layer == model.layers[Len(model.layers)]
         IN  [in_name  |-> InferBulkNameFromLayer(bulk_in_layer, FallbackBulkIn),
              out_name |-> InferBulkNameFromLayer(bulk_out_layer, FallbackBulkOut),
              in_sld   |-> Some(SafeGetSld(bulk_in_layer.material)),
              out_sld  |-> Some(SafeGetSld(bulk_out_layer.material))]
    ELSE [in_name |-> FallbackBulkIn, out_name |-> FallbackBulkOut,
          in_sld |-> None, out_sld |-> None]

\* lines 209-228: the bulk names and SLDs of a dataset, [in_name, out_name, in_sld, out_sld]
InferBulks(model) ==
    IF model.kind = "layers" /\ Len(model.layers) >= 2
    THEN LET bulk_in_layer  == model.layers[1]
             bulk_out_layer == model.layers[Len(model.layers)]
         IN  [in_name  |-> InferBulkNameFromLayer(bulk_in_layer, FallbackBulkIn),
              out_name |-> InferBulkNameFromLayer(bulk_out_layer, FallbackBulkOut),
              in_sld   |-> Some(SafeGetSld(bulk_in_layer.material)),
              out_sld  |-> Some(SafeGetSld(bulk_out_layer.material))]
    ELSE [in_name |-> FallbackBulkIn, out_name |-> FallbackBulkOut,
          in_sld |-> None, out_sld |-> None]

\* lines 194-195: the shape test on np.asarray(ds.data)
ShapeMalformed(arr) == arr.ndim # 2 \/ arr.ncols < 2

\* a variant whose message does not carry the contrast name
ShapeError_Unnamed(name) ==
    [type |-> "ValueError",
     message |-> <<"D","a","t","a","s","e","t"," ","d","o","e","s"," ","n","o","t"," ","l","o","o","k"," ","l","i","k","e"," ","N","x","2","/","N","x","3"," ","d","a","t","a",".">>]

\* line 196: ValueError(f"Dataset '{cname}' does not look like Nx2/Nx3 data.")
ShapeError(name) ==
    [type |-> "ValueError",
     message |-> <<"D","a","t","a","s","e","t"," ","'">> \o name \o <<"'"," ","d","o","e","s"," ","n","o","t"," ","l","o","o","k"," ","l","i","k","e"," ","N","x","2","/","N","x","3"," ","d","a","t","a",".">>]

\* a variant in which the exception of resolve_to_layers() is not caught
LoopHeadRaises_Unguarded(d) == ShapeMalformed(d.data) \/ d.model.kind = "raises"

\* lines 190-228: whether the head of the loop body raises for dataset d; the
\* model resolution sits in try/except Exception: pass, so only the shape test can
LoopHeadRaises(d) == ShapeMalformed(d.data)

\* lines 190-228: the head of one loop iteration, for the next dataset of the file
NextDataset ==
    /\ pc = "loop"
    /\ i <= n
    /\ \E d \in Datasets :
         LET nm == SanitizeName(d.name, ContrastFallback(i))
             b  == InferBulks(d.model)
         IN  /\ ds' = d
             /\ sources' = Append(sources, d)
             /\ cname' = nm
             /\ IF LoopHeadRaises(d)
                THEN /\ error' = ShapeError(nm)
                     /\ pc' = "raised"
                     /\ UNCHANGED <<data_arr, bulk_in_name, bulk_out_name,
                                    bulk_in_sld, bulk_out_sld>>
                ELSE /\ data_arr' = EnsureNx3(d.data)
                     /\ error' = error
                     /\ bulk_in_name' = b.in_name
                     /\ bulk_out_name' = b.out_name
                     /\ bulk_in_sld' = b.in_sld
                     /\ bulk_out_sld' = b.out_sld
                     /\ pc' = "merge_in"
    /\ UNCHANGED <<project, n, i, bulk_in_ref, bulk_out_ref, call, ncalls, base, fs, app>>

\* the record of one call of _ensure_bulk_parameter_exists
CallRecord(pre, which, bulk_name, sld_value, r) ==
    [made |-> TRUE, pre |-> pre, which |-> which, bulk_name |-> bulk_name,
     sld_value |-> sld_value, post |-> r.project, ret |-> r.ret]

\* line 230
MergeBulkIn ==
    /\ pc = "merge_in"
    /\ LET r == EnsureBulkParameterExists(project, <<"i","n">>, bulk_in_name, bulk_in_sld)
       IN  /\ project' = r.project
           /\ bulk_in_ref' = r.ret
           /\ call' = CallRecord(project, <<"i","n">>, bulk_in_name, bulk_in_sld, r)
    /\ ncalls' = ncalls + 1
    /\ pc' = "merge_out"
    /\ UNCHANGED <<n, i, ds, cname, data_arr, bulk_in_name, bulk_out_name,
                   bulk_in_sld, bulk_out_sld, bulk_out_ref, sources, error, base, fs, app>>

\* line 231
MergeBulkOut ==
    /\ pc = "merge_out"
    /\ LET r == EnsureBulkParameterExists(project, <<"o","u","t">>, bulk_out_name, bulk_out_sld)
       IN  /\ project' = r.project
           /\ bulk_out_ref' = r.ret
           /\ call' = CallRecord(project, <<"o","u","t">>, bulk_out_name, bulk_out_sld, r)
    /\ ncalls' = ncalls + 1
    /\ pc' = "append"
    /\ UNCHANGED <<n, i, ds, cname, data_arr, bulk_in_name, bulk_out_name,
                   bulk_in_sld, bulk_out_sld, bulk_in_ref, sources, error, base, fs, app>>

\* lines 234-244: the data record and the contrast of the dataset
AppendDataAndContrast ==
    /\ pc = "append"
    /\ project' =
         [project EXCEPT
            !.data = Append(@, [name |-> cname, data |-> data_arr]),
            !.contrasts = Append(@, [name |-> cname, background |-> Background1,
                                     resolution |-> Resolution1,
                                     scalefactor |-> Scalefactor1,
                                     bulk_in |-> bulk_in_ref, bulk_out |-> bulk_out_ref,
                                     data |-> cname])]
    /\ i' = i + 1
    /\ pc' = "loop"
    /\ UNCHANGED <<n, locals, sources, call, ncalls, error, base, fs, app>>

\* lines 246-248: the clamping pass and the return
FinishImport ==
    /\ pc = "loop"
    /\ i > n
    /\ LET c == ClampAllParameterValues(project)
       IN  /\ project' = c.project
           /\ pc' = IF c.raised THEN "raised" ELSE "returned"
           /\ error' = IF c.raised THEN ValidationError ELSE error
    /\ UNCHANGED <<n, i, locals, sources, call, ncalls, base, fs, app>>

Next ==
    \/ PrepareFiles
    \/ ClearAndLoad
    \/ NextDataset
    \/ MergeBulkIn
    \/ MergeBulkOut
    \/ AppendDataAndContrast
    \/ FinishImport

Spec == Init /\ [][Next]_vars

(***************************************************************************)
(* _ensure_bulk_parameter_exists on its own: any sequence of calls, with   *)
(* any role, name and SLD, on projects that may lack a container or carry  *)
(* it under the alternative attribute name.                                *)
(***************************************************************************)
MergeTriples ==
    { <<0, 0, 0>>, <<0, 20, 40>>, <<20, 20, 20>>, <<0, 40, 40>>, <<20, 40, 40>>,
      <<0, 0, 40>>, <<20, 0, 40>>, <<0, 40, 20>> }

MergeContainers ==
    {<<>>, <<Param(<<"s","l","d"," ","D","2","O">>, 0, 20, 40, FALSE)>>}
    \cup {<<Param(SLDD2O, t[1], t[2], t[3], FALSE)>> : t \in MergeTriples}

\* the base project with its bulk containers held under the attributes ins and outs
ProjectWithAttrs(ins, outs, bin, bout) ==
    LET p == BaseProject(<<>>, <<>>, Param(Scalefactor1, 0, 20, 40, FALSE))
    IN  [a \in ((DOMAIN p) \ {"bulk_in", "bulk_out"}) \cup ins \cup outs |->
            IF a \in ins THEN bin ELSE IF a \in outs THEN bout ELSE p[a]]

MergeAttrs ==
    { <<{"bulk_in"}, {"bulk_out"}>>, <<{"bulkIn"}, {"bulkOut"}>>,
      <<{}, {"bulk_out"}>>, <<{"bulk_in", "bulkIn"}, {}>> }

MergeProjects ==
    {ProjectWithAttrs(at[1], at[2], <<Param(SLDAir, 0, 0, 0, FALSE)>>, bout) :
        at \in MergeAttrs, bout \in MergeContainers}

MergeWhich == {<<"i","n">>, <<"B","u","l","k","I","n">>, <<"o","u","t">>}
MergeNames == {<<"D","2","O">>, <<"S","L","D"," ","D","2","O">>, <<"s","l","d"," ","D","2","O">>}
MergeSlds == {None, Some(-20), Some(0), Some(20)}

MergeInit ==
    /\ project \in MergeProjects
    /\ base = project
    /\ pc = "merge"
    /\ app = NoApp
    /\ InitLocals

\* one call _ensure_bulk_parameter_exists(project, which, bulk_name, sld_value)
MergeCall ==
    /\ pc = "merge"
    /\ ncalls < MaxCalls
    /\ \E which \in MergeWhich, bulk_name \in MergeNames, sld_value \in MergeSlds :
         LET r == EnsureBulkParameterExists(project, which, bulk_name, sld_value)
         IN  /\ project' = r.project
             /\ call' = CallRecord(project, which, bulk_name, sld_value, r)
    /\ ncalls' = ncalls + 1
    /\ UNCHANGED <<pc, n, i, locals, sources, error, base, fs, app>>

MergeNext == MergeCall

MergeSpec == MergeInit /\ [][MergeNext]_vars

(***************************************************************************)
(* _infer_bulk_name_from_layer on its own: any layer, any fallback.        *)
(***************************************************************************)
InferMaterialNames ==
    { None, Some(<<>>), Some(<<" ">>), Some(<<"a","i","r">>), Some(<<"S","i","l","i","c","o","n">>), Some(<<"l","i","p","i","d">>),
      Some(<<"A","u","M","W">>), Some(<<"S","i","M","W">>), Some(<<"h","2","o"," ","i","n"," ","D","2","O">>) }
InferOriginalNames == { None, Some(<<" ">>), Some(<<"h","2","o"," ","b","u","f">>), Some(<<"t","a","i","l","s">>), Some(<<"A","i","r"," ","g","a","p">>) }
InferFormulas == { None, Some(<<>>), Some(<<"D","2","O">>), Some(<<"H","2","O">>), Some(<<"S","i","O","2">>) }
InferFallbacks == { <<"A","i","r">>, <<"D","2","O">>, <<"X">> }

InferLayers ==
    {Layer(Material(nm, f, SldValue(0)), o) :
        nm \in InferMaterialNames, f \in InferFormulas, o \in InferOriginalNames}
    \cup {Layer(None, o) : o \in InferOriginalNames}

InferInit ==
    /\ project = BaseProject(<<>>, <<>>, Param(Scalefactor1, 0, 20, 40, FALSE))
    /\ base = project
    /\ pc = "infer"
    /\ app = NoApp
    /\ InitLocals

\* one call _infer_bulk_name_from_layer(layer_obj, fallback)
InferCall ==
    /\ pc = "infer"
    /\ \E layer_obj \in InferLayers, fallback \in InferFallbacks :
         call' = [made |-> TRUE, layer_obj |-> layer_obj, fallback |-> fallback,
                  ret |-> InferBulkNameFromLayer(layer_obj, fallback)]
    /\ UNCHANGED <<project, pc, n, i, locals, sources, ncalls, error, base, fs, app>>

InferNext == InferCall

InferSpec == InferInit /\ [][InferNext]_vars

(***************************************************************************)
(* The application around the importer: ImportORTDialog starts a worker    *)
(* that calls MainWindowPresenter.import_ort_project, which creates the    *)
(* base project in the model and hands it to import_ort_to_project.        *)
(* app.model_project says which project the model holds: "none", the       *)
(* "previous" one, or the "new" one, the object the variable project       *)
(* describes.  app.extra holds, for each worker started while the first    *)
(* was still running, the stage that worker has reached.                   *)
(***************************************************************************)
\* the most workers the Import button is pressed for while the first one runs
MaxExtraWorkers == 1

OrtPath == <<"/","i","n","/","a","_","b",".","o","r","t">>
ProjectFolder == <<"/","o","u","t">>

\* TypeError of a call that lacks a required positional argument
MissingArgument(name) == [type |-> "TypeError", message |-> name]

\* rat.Project(name=name) with the default contrast of create_project
CreatedProject ==
    BaseProject(<<Param(SLDAir, 0, 0, 0, FALSE)>>, <<Param(SLDD2O, 20, 40, 40, FALSE)>>,
                Param(Scalefactor1, 0, 20, 40, FALSE))

\* the dialog as it opens, over a model that holds the project `loaded`
AppStart(loaded) ==
    [origin |-> "none", model_project |-> loaded, results |-> loaded,
     ui_initialised |-> FALSE, text |-> <<>>, error_hidden |-> TRUE, blocked |-> FALSE,
     args |-> <<>>, message |-> None, extra |-> <<>>]

\* (project and base describe no object of the program until create_project)
AppInit ==
    /\ app \in {AppStart(loaded) : loaded \in {"none", "previous"}}
    /\ project = CreatedProject
    /\ base = project
    /\ pc = "dialog"
    /\ InitLocals

\* StartupDialog.open_folder_selector with ImportORTDialog.verify_folder
OpenFolderSelector ==
    /\ pc = "dialog"
    /\ \E picked \in BOOLEAN, valid \in BOOLEAN :
         app' = IF ~picked THEN app
                ELSE IF ~valid THEN [app EXCEPT !.text = <<>>, !.error_hidden = FALSE]
                ELSE [app EXCEPT !.text = OrtPath, !.error_hidden = TRUE]
    /\ UNCHANGED <<project, pc, n, i, locals, sources, call, ncalls, error, base, fs>>

\* the argument list ImportORTDialog.import_ort gives the worker
ImportOrtArgs(ort_path) == <<ort_path>>

\* the worker of the first press of Import has been started and has not finished
FirstWorkerRunning == app.origin = "dialog" /\ pc \notin {"dialog", "done"}

\* the workers that are running
RunningWorkers ==
    (IF FirstWorkerRunning THEN 1 ELSE 0)
    + Cardinality({k \in 1..Len(app.extra) : app.extra[k] # "finished"})

\* ImportORTDialog.import_ort: the Import button, which block_for_worker leaves
\* enabled while a worker runs
ImportOrt ==
    /\ \/ pc = "dialog"
       \/ FirstWorkerRunning /\ Len(app.extra) < MaxExtraWorkers
    /\ IF app.text = <<>>
       THEN /\ app' = [app EXCEPT !.error_hidden = FALSE]
            /\ pc' = pc
       ELSE IF ~app.error_hidden
       THEN UNCHANGED <<app, pc>>
       ELSE IF pc = "dialog"
       THEN /\ app' = [app EXCEPT !.origin = "dialog", !.args = ImportOrtArgs(app.text),
                                  !.blocked = TRUE]
            /\ pc' = "call"
       ELSE /\ app' = [app EXCEPT !.extra = Append(@, "call"), !.blocked = TRUE]
            /\ pc' = pc
    /\ UNCHANGED <<project, n, i, locals, sources, call, ncalls, error, base, fs>>

\* a call presenter.import_ort_project(ort_path, project_folder) made directly
PresenterCall ==
    /\ pc = "dialog"
    /\ app' = [app EXCEPT !.origin = "presenter", !.args = <<OrtPath, ProjectFolder>>]
    /\ pc' = "call"
    /\ UNCHANGED <<project, n, i, locals, sources, call, ncalls, error, base, fs>>

\* a variant in which project_folder has a default
BindImportOrtProject_OptionalFolder(args) == Len(args) \in {1, 2}

\* def import_ort_project(self, ort_path: str, project_folder: str): whether the
\* positional arguments args bind to the parameters
BindImportOrtProject(args) == Len(args) = 2

\* the call func(*args) of import_ort_project, by the worker or directly
CallImportOrtProject ==
    /\ pc = "call"
    /\ IF BindImportOrtProject(app.args)
       THEN /\ pc' = "create"
            /\ error' = error
       ELSE /\ pc' = "presenter_raised"
            /\ error' = MissingArgument(<<"p","r","o","j","e","c","t","_","f","o","l","d","e","r">>)
    /\ UNCHANGED <<project, n, i, locals, sources, call, ncalls, base, fs, app>>

\* import_ort_project up to the importer call: model.create_project(name, path)
CreateProject ==
    /\ pc = "create"
    /\ project' = CreatedProject
    /\ base' = CreatedProject
    /\ app' = [app EXCEPT !.model_project = "new", !.results = "new"]
    /\ pc' = "start"
    /\ UNCHANGED <<n, i, locals, sources, call, ncalls, error, fs>>

\* import_ort_project after the importer returned: model.project, the preview
\* run, and self.model.save_project(), which lacks the argument save_path
ImportReturned ==
    /\ pc = "returned"
    /\ app.origin # "call"
    /\ app' = [app EXCEPT !.model_project = "new", !.results = "new"]
    /\ error' = MissingArgument(<<"s","a","v","e","_","p","a","t","h">>)
    /\ pc' = "presenter_raised"
    /\ UNCHANGED <<project, n, i, locals, sources, call, ncalls, base, fs>>

\* an exception of the importer leaves import_ort_project, which catches nothing
ImportRaised ==
    /\ pc = "raised"
    /\ app.origin # "call"
    /\ pc' = "presenter_raised"
    /\ UNCHANGED <<project, n, i, locals, sources, call, ncalls, error, base, fs, app>>

\* the message box of StartupDialog.project_start_failed(exception, args)
FailureMessage(exception, args) == [folder_name |-> args[1], error |-> exception]

\* the worker hands the exception of its call to project_start_failed
ProjectStartFailed ==
    /\ pc = "presenter_raised"
    /\ app.origin = "dialog"
    /\ app' = [app EXCEPT !.message = Some(FailureMessage(error, app.args))]
    /\ pc' = "failed"
    /\ UNCHANGED <<project, n, i, locals, sources, call, ncalls, error, base, fs>>

\* the worker has finished: lambda: self.block_for_worker(False)
WorkerFinished ==
    /\ pc = "failed"
    /\ app' = [app EXCEPT !.blocked = FALSE]
    /\ pc' = "done"
    /\ UNCHANGED <<project, n, i, locals, sources, call, ncalls, error, base, fs>>

\* a later worker calls import_ort_project(*args): the call does not bind, or it
\* runs create_project on the model the first worker is using and then raises
ExtraWorkerCall(k) ==
    /\ k <= Len(app.extra) /\ app.extra[k] = "call"
    /\ app' = IF BindImportOrtProject(ImportOrtArgs(app.text))
              THEN [app EXCEPT !.extra[k] = "raised", !.model_project = "new",
                               !.results = "new"]
              ELSE [app EXCEPT !.extra[k] = "raised"]
    /\ UNCHANGED <<project, pc, n, i, locals, sources, call, ncalls, error, base, fs>>

\* a later worker hands its exception to project_start_failed
ExtraWorkerFailed(k) ==
    /\ k <= Len(app.extra) /\ app.extra[k] = "raised"
    /\ app' = [app EXCEPT !.extra[k] = "failed"]
    /\ UNCHANGED <<project, pc, n, i, locals, sources, call, ncalls, error, base, fs>>

\* a later worker has finished: lambda: self.block_for_worker(False)
ExtraWorkerFinished(k) ==
    /\ k <= Len(app.extra) /\ app.extra[k] = "failed"
    /\ app' = [app EXCEPT !.extra[k] = "finished", !.blocked = FALSE]
    /\ UNCHANGED <<project, pc, n, i, locals, sources, call, ncalls, error, base, fs>>

AppNext ==
    \/ OpenFolderSelector
    \/ ImportOrt
    \/ PresenterCall
    \/ CallImportOrtProject
    \/ CreateProject
    \/ PrepareFiles
    \/ ClearAndLoad
    \/ NextDataset
    \/ MergeBulkIn
    \/ MergeBulkOut
    \/ AppendDataAndContrast
    \/ FinishImport
    \/ ImportReturned
    \/ ImportRaised
    \/ ProjectStartFailed
    \/ WorkerFinished
    \/ \E k \in 1..MaxExtraWorkers : ExtraWorkerCall(k)
    \/ \E k \in 1..MaxExtraWorkers : ExtraWorkerFailed(k)
    \/ \E k \in 1..MaxExtraWorkers : ExtraWorkerFinished(k)

AppSpec == AppInit /\ [][AppNext]_vars

(***************************************************************************)
(* The main window: MainWindowModel, MainWindowPresenter and the           *)
(* MainWindowView handlers that ask to save.  Here the variable app holds  *)
(* the model (project, controls and results are None or Some(p), the       *)
(* content that came from path p), the undo stack's clean flag, the state  *)
(* of the fit run, and in app.last a record of the last operation with its *)
(* inputs and what it returned or raised.                                  *)
(***************************************************************************)
\* the most fit runs started
MaxRuns == 2

\* paths: two user folders, an example of EXAMPLES_PATH and its copy under
\* EXAMPLES_TEMP_PATH
UserFolders == {"F1", "F2"}
ExampleFolder == "EX"
ExampleTempFolder == "TMP"

\* copy_example_project(load_path)
CopyExampleProject(load_path) ==
    IF load_path = ExampleFolder THEN ExampleTempFolder ELSE load_path

\* MainWindowModel.is_project_example
IsProjectExample(m) == m.save_path = ExampleTempFolder

\* MainWindowModel.__init__
NewModel == [project |-> None, controls |-> None, results |-> None, save_path |-> ""]

\* MainWindowModel.create_project(name, save_path)
ModelCreateProject(save_path) ==
    [project |-> Some("created"), controls |-> Some("created"),
     results |-> Some("created"), save_path |-> save_path]

\* what a project file of a folder can be
FileStates == {"ok", "missing", "bad_json", "bad_keys", "bad_values"}

\* a file that is there and is not in a valid format
InvalidFormat(state) == state \in {"bad_json", "bad_keys", "bad_values"}

\* the exception rat.Results.load, rat.Controls.load or rat.Project.load raises
\* on a file in the given state (None: it returns the object)
LoaderRaises(state) ==
    CASE state = "ok" -> None
      [] state = "missing" -> Some("FileNotFoundError")
      [] state = "bad_json" -> Some("JSONDecodeError")
      [] state = "bad_keys" -> Some("KeyError")
      [] state = "bad_values" -> Some("ValidationError")

\* isinstance(e, ValueError): JSONDecodeError and pydantic's ValidationError are
\* subclasses of ValueError
IsValueError(e) == e \in {"ValueError", "JSONDecodeError", "ValidationError"}

\* the folders a load is given: the three files, results.json, controls.json and
\* project.json, each in some state.  The loaders of results and controls report
\* a file that is not in a valid format with a ValueError; the project's loader
\* can also raise KeyError.
LoadFolders ==
    [results : FileStates \ {"bad_keys"}, controls : FileStates \ {"bad_keys"},
     project : FileStates]

Raised(type, message) == [type |-> type, message |-> message]

\* try: results = rat.Results.load(...) with its two except clauses
LoadResults(state, path) ==
    LET e == LoaderRaises(state)
    IN  IF ~e.some THEN [raised |-> None, val |-> Some(path)]
        ELSE IF e.val = "FileNotFoundError" THEN [raised |-> None, val |-> None]
        ELSE IF IsValueError(e.val)
        THEN [raised |-> Some(Raised("ValueError", "results.json not valid")), val |-> None]
        ELSE [raised |-> Some(Raised(e.val, "results.json")), val |-> None]

\* try: controls = rat.Controls.load(...) with its except clause
LoadControls(state, path) ==
    LET e == LoaderRaises(state)
    IN  IF ~e.some THEN [raised |-> None, val |-> Some(path)]
        ELSE IF IsValueError(e.val)
        THEN [raised |-> Some(Raised("ValueError", "controls.json not valid")), val |-> None]
        ELSE [raised |-> Some(Raised(e.val, "controls.json")), val |-> None]

\* try: project = rat.Project.load(...) with its two except clauses
LoadProjectFile(state, path) ==
    LET e == LoaderRaises(state)
    IN  IF ~e.some THEN [raised |-> None, val |-> Some(path)]
        ELSE IF e.val = "JSONDecodeError"
        THEN [raised |-> Some(Raised("ValueError", "project.json invalid JSON")), val |-> None]
        ELSE IF e.val = "KeyError" \/ IsValueError(e.val)
        THEN [raised |-> Some(Raised("ValueError", "project.json not valid")), val |-> None]
        ELSE [raised |-> Some(Raised(e.val, "project.json")), val |-> None]

\* a variant that stores each object in the model as soon as it is loaded
ModelLoadProject_Eager(m, load_path, files) ==
    LET path == CopyExampleProject(load_path)
        r == LoadResults(files.results, path)
        c == LoadControls(files.controls, path)
        p == LoadProjectFile(files.project, path)
        m1 == [m EXCEPT !.results = r.val]
        m2 == [m1 EXCEPT !.controls = c.val]
    IN  IF r.raised.some THEN [model |-> m, raised |-> r.raised]
        ELSE IF c.raised.some THEN [model |-> m1, raised |-> c.raised]
        ELSE IF p.raised.some THEN [model |-> m2, raised |-> p.raised]
        ELSE [model |-> [project |-> p.val, controls |-> c.val, results |-> r.val,
                         save_path |-> path],
              raised |-> None]

\* MainWindowModel.load_project(load_path): the model after the call and the
\* exception it raised, if any
ModelLoadProject(m, load_path, files) ==
    LET path == CopyExampleProject(load_path)
        r == LoadResults(files.results, path)
        c == LoadControls(files.controls, path)
        p == LoadProjectFile(files.project, path)
    IN  IF r.raised.some THEN [model |-> m, raised |-> r.raised]
        ELSE IF c.raised.some THEN [model |-> m, raised |-> c.raised]
        ELSE IF p.raised.some THEN [model |-> m, raised |-> p.raised]
        ELSE [model |-> [project |-> p.val, controls |-> c.val, results |-> r.val,
                         save_path |-> path],
              raised |-> None]

\* a variant that leaves the results as the model loaded them
PresenterLoadProject_NoQuickRun(m, load_path, files, run_ok) ==
    ModelLoadProject(m, load_path, files)

\* MainWindowPresenter.load_project(load_path); run_ok says whether rat.run of
\* quick_run returns
PresenterLoadProject(m, load_path, files, run_ok) ==
    LET loaded == ModelLoadProject(m, load_path, files)
    IN  IF loaded.raised.some THEN loaded
        ELSE IF loaded.model.results.some THEN loaded
        ELSE IF run_ok
        THEN [model |-> [loaded.model EXCEPT !.results = Some("quick_run")],
              raised |-> None]
        ELSE [model |-> loaded.model, raised |-> Some(Raised("RuntimeError", "run"))]

\* the main window as it opens: no project yet, or a project created in F1, or an
\* example loaded, with or without changes on the undo stack
NoOperation == [op |-> "none"]

UiStart(m, clean) ==
    [origin |-> "ui", model |-> m, clean |-> clean, closed |-> FALSE, dialog |-> FALSE,
     ipc |-> FALSE, runner |-> "none", procedure |-> "calculate", ended_by |-> "none",
     stop_sent |-> FALSE,
     deletes |-> 0, pushed |-> 0, runs |-> 0, last |-> NoOperation]

UiInit ==
    /\ app \in {UiStart(NewModel, TRUE)}
            \cup {UiStart(ModelCreateProject("F1"), clean) : clean \in BOOLEAN}
            \cup {UiStart([ModelCreateProject(ExampleTempFolder) EXCEPT
                               !.project = Some(ExampleTempFolder)], clean) :
                  clean \in BOOLEAN}
    /\ project = CreatedProject
    /\ base = project
    /\ pc = "ui"
    /\ InitLocals

UiFrame == UNCHANGED <<project, pc, n, i, locals, sources, call, ncalls, error, base, fs>>

\* the main window takes input: it is open, no modal dialog is shown
WindowActive == ~app.closed /\ ~app.dialog

\* a project is open and no fit is running: editing and saving are enabled
Editable == WindowActive /\ app.model.project.some /\ app.runner # "running"

\* MainWindowPresenter.edit_project / edit_controls: a valid edit is pushed to
\* the undo stack, an invalid one raises before the push
EditProject ==
    /\ Editable
    /\ \E valid \in BOOLEAN :
         app' = [app EXCEPT !.clean = IF valid THEN FALSE ELSE @,
                            !.last = [op |-> "edit", valid |-> valid]]
    /\ UiFrame

\* MainWindowModel.save_project(save_path): the model after the call and whether
\* it raised OSError; outcome says whether the files can be written
ModelSaveProject(m, save_path, outcome) ==
    IF outcome = "ok" THEN [model |-> [m EXCEPT !.save_path = save_path], raised |-> FALSE]
    ELSE [model |-> m, raised |-> TRUE]

\* MainWindowPresenter.save_project(save_as): folder is what get_project_folder
\* returns if it is asked (None when the user cancels), outcome whether the files
\* can be written.  Gives the window state after the call, the return value, and
\* whether the project was written.
PresenterSaveProject(a, save_as, folder, outcome) ==
    LET ask == save_as \/ IsProjectExample(a.model)
        to_path == IF ask THEN folder ELSE Some(a.model.save_path)
    IN  IF ask /\ (~to_path.some \/ to_path.val = "")
        THEN [app |-> a, ret |-> FALSE, written |-> FALSE, to_path |-> to_path]
        ELSE LET saved == ModelSaveProject(a.model, to_path.val, outcome)
             IN  IF saved.raised
                 THEN [app |-> a, ret |-> TRUE, written |-> FALSE, to_path |-> to_path]
                 ELSE [app |-> [a EXCEPT !.model = saved.model, !.clean = TRUE],
                       ret |-> TRUE, written |-> TRUE, to_path |-> to_path]

\* what get_project_folder can return
ChosenFolders == {None} \cup {Some(f) : f \in UserFolders}

WriteOutcomes == {"ok", "oserror"}

\* the Save and Save To Folder actions of the menu
SaveProject ==
    /\ Editable
    /\ \E save_as \in BOOLEAN, folder \in ChosenFolders, outcome \in WriteOutcomes :
         LET s == PresenterSaveProject(app, save_as, folder, outcome)
         IN  app' = [s.app EXCEPT !.last =
                        [op |-> "save", save_as |-> save_as, folder |-> folder,
                         outcome |-> outcome, to_path |-> s.to_path, ret |-> s.ret,
                         written |-> s.written, pre_clean |-> app.clean]]
    /\ UiFrame

\* the replies of show_unsaved_dialog
UnsavedReply == {"Save", "Discard", "Cancel"}

\* MainWindowPresenter.ask_to_save_project
AskToSaveProject(a, reply, folder, outcome) ==
    IF a.clean
    THEN [app |-> a, proceed |-> TRUE, asked |-> FALSE, written |-> FALSE]
    ELSE IF reply = "Save"
    THEN LET s == PresenterSaveProject(a, FALSE, folder, outcome)
         IN  [app |-> s.app, proceed |-> s.ret, asked |-> TRUE, written |-> s.written]
    ELSE IF reply = "Cancel"
    THEN [app |-> a, proceed |-> FALSE, asked |-> TRUE, written |-> FALSE]
    ELSE [app |-> a, proceed |-> TRUE, asked |-> TRUE, written |-> FALSE]

AskRecord(op, reply, folder, outcome, r) ==
    [op |-> op, reply |-> reply, folder |-> folder, outcome |-> outcome,
     asked |-> r.asked, proceed |-> r.proceed, written |-> r.written,
     pre_clean |-> app.clean, pre_model |-> app.model]

\* MainWindowView.closeEvent
CloseEvent ==
    /\ WindowActive
    /\ \E reply \in UnsavedReply, folder \in ChosenFolders, outcome \in WriteOutcomes :
         LET r == AskToSaveProject(app, reply, folder, outcome)
         IN  app' = [r.app EXCEPT !.closed = r.proceed,
                                  !.last = AskRecord("close", reply, folder, outcome, r)]
    /\ UiFrame

\* MainWindowView.show_project_dialog(dialog): New, Open, Open RasCAL-1, Import
ShowProjectDialog ==
    /\ WindowActive
    /\ \E reply \in UnsavedReply, folder \in ChosenFolders, outcome \in WriteOutcomes :
         LET r == AskToSaveProject(app, reply, folder, outcome)
         IN  app' = [r.app EXCEPT !.dialog = r.proceed,
                                  !.last = AskRecord("dialog", reply, folder, outcome, r)]
    /\ UiFrame

\* StartupDialog.reject: the Cancel button of the dialog
DialogReject ==
    /\ ~app.closed /\ app.dialog
    /\ app' = [app EXCEPT !.dialog = FALSE, !.last = [op |-> "reject"]]
    /\ UiFrame

\* the folders a load is asked for
LoadPaths == {"F2", ExampleFolder}

\* a call of MainWindowModel.load_project
ModelLoad ==
    /\ ~app.closed /\ app.dialog /\ app.runner # "running"
    /\ \E load_path \in LoadPaths, files \in LoadFolders :
         LET r == ModelLoadProject(app.model, load_path, files)
         IN  app' = [app EXCEPT !.model = r.model,
                                !.last = [op |-> "model_load", load_path |-> load_path,
                                          files |-> files, raised |-> r.raised,
                                          pre_model |-> app.model]]
    /\ UiFrame

\* a call of MainWindowPresenter.load_project, as LoadDialog.load_project has it made
PresenterLoad ==
    /\ ~app.closed /\ app.dialog /\ app.runner # "running"
    /\ \E load_path \in LoadPaths, files \in LoadFolders, run_ok \in BOOLEAN :
         LET r == PresenterLoadProject(app.model, load_path, files, run_ok)
         IN  app' = [app EXCEPT !.model = r.model,
                                !.last = [op |-> "presenter_load", load_path |-> load_path,
                                          files |-> files, raised |-> r.raised,
                                          pre_model |-> app.model]]
    /\ UiFrame

\* StartupDialog.project_start_success after a load that returned:
\* initialise_ui clears the undo stack, the dialog is accepted
ProjectStartSuccess ==
    /\ ~app.closed /\ app.dialog
    /\ app.last.op = "presenter_load" /\ ~app.last.raised.some
    /\ app' = [app EXCEPT !.clean = TRUE, !.dialog = FALSE, !.last = [op |-> "success"]]
    /\ UiFrame

\* the procedures of the controls
Procedures == {"calculate", "simplex", "de"}

\* MainWindowPresenter.run: input_ok says whether rat.inputs.make_input returns
Run ==
    /\ Editable /\ app.runs < MaxRuns
    /\ \E procedure \in Procedures, input_ok \in BOOLEAN :
         app' = IF input_ok
                THEN [app EXCEPT !.ipc = TRUE, !.procedure = procedure,
                                 !.runner = "running", !.ended_by = "none",
                                 !.stop_sent = FALSE, !.deletes = 0, !.pushed = 0,
                                 !.runs = @ + 1,
                                 !.last = [op |-> "run", started |-> TRUE]]
                ELSE [app EXCEPT !.ipc = TRUE, !.procedure = procedure,
                                 !.last = [op |-> "run", started |-> FALSE]]
    /\ UiFrame

\* MainWindowPresenter.handle_results
HandleResults(a) ==
    [a EXCEPT !.clean = FALSE, !.pushed = @ + 1, !.ipc = FALSE, !.deletes = @ + 1,
              !.runner = "ended", !.ended_by = "finished",
              !.last = [op |-> "handle_results"]]

\* a variant that leaves the IPC in place
HandleInterrupt_KeepsIPC(a) ==
    [a EXCEPT !.runner = "ended", !.ended_by = "stopped",
              !.last = [op |-> "handle_interrupt"]]

\* MainWindowPresenter.handle_interrupt
HandleInterrupt(a) ==
    [a EXCEPT !.ipc = FALSE, !.deletes = @ + 1,
              !.runner = "ended", !.ended_by = "stopped",
              !.last = [op |-> "handle_interrupt"]]

\* the runner's process has returned results: the runner emits finished
RunnerFinished ==
    /\ app.runner = "running"
    /\ app' = HandleResults(app)
    /\ UiFrame

\* the runner's process has failed: the runner emits stopped
RunnerStopped ==
    /\ app.runner = "running"
    /\ app' = HandleInterrupt(app)
    /\ UiFrame

\* MainWindowPresenter.interrupt_terminal: the stop button.  runner.interrupt()
\* kills the process and emits stopped.
InterruptTerminal ==
    /\ ~app.closed /\ app.runner = "running"
    /\ \E confirmed \in BOOLEAN, alive \in BOOLEAN :
         app' = IF app.procedure \in {"simplex", "de"}
                THEN [app EXCEPT !.stop_sent = TRUE, !.last = [op |-> "stop_event"]]
                ELSE IF ~confirmed THEN [app EXCEPT !.last = [op |-> "stop_declined"]]
                ELSE IF alive THEN HandleInterrupt(app)
                ELSE [app EXCEPT !.last = [op |-> "stop_not_alive"]]
    /\ UiFrame

UiNext ==
    \/ EditProject
    \/ SaveProject
    \/ CloseEvent
    \/ ShowProjectDialog
    \/ DialogReject
    \/ ModelLoad
    \/ PresenterLoad
    \/ ProjectStartSuccess

UiSpec == UiInit /\ [][UiNext]_vars

\* the fit runs of a window with a project open: edits, saves and runs
RunInit == UiInit /\ app.model.project.some

RunNext ==
    \/ EditProject
    \/ SaveProject
    \/ Run
    \/ RunnerFinished
    \/ RunnerStopped
    \/ InterruptTerminal

RunSpec == RunInit /\ [][RunNext]_vars

(***************************************************************************)
(* Properties.                                                             *)
(***************************************************************************)
BulkAttrs == {"bulk_in", "bulkIn", "bulk_out", "bulkOut"}

\* the container the last call addressed (None if the project has none for the role)
CallAttr == TargetAttr(call.pre, call.which)

\* position, before the last call, of the row named by the returned reference (0: none)
CallRow == FirstRowNamed(call.pre[CallAttr.val], call.ret)

Names(rows) == {rows[k].name : k \in 1..Len(rows)}

\* "SLD " + name unless name already begins with "SLD ", letter for letter
LiteralRef(name) == IF StartsWith(name, SLDPrefix) THEN name ELSE SLDPrefix \o name

\* "SLD " + name unless name already begins with "SLD " in any letter case
AnyCaseRef(name) ==
    IF Len(name) >= 4 /\ LowerStr(SubSeq(name, 1, 4)) = <<"s","l","d"," ">> THEN name
    ELSE SLDPrefix \o name

\* C1: a merge with a known nonzero SLD v on an existing parameter leaves it with
\* min <= value <= max, value = v, and a range that only widened
\* (new min <= old min, new max >= old max).
C1_RangeOnlyWidens ==
    (call.made /\ call.sld_value.some /\ call.sld_value.val # 0
        /\ CallAttr.some /\ CallRow # 0)
    => LET old == call.pre[CallAttr.val][CallRow]
           new == call.post[CallAttr.val][CallRow]
       IN  /\ new.min <= new.value /\ new.value <= new.max
           /\ new.value = call.sld_value.val
           /\ new.min <= old.min
           /\ new.max >= old.max

\* C2: a merge with an unknown SLD on an existing parameter changes neither its
\* min, max and value nor the set of parameters: the project is as before.
C2_UnknownSldKeepsExisting ==
    (call.made /\ ~call.sld_value.some /\ CallAttr.some /\ CallRow # 0)
    => call.post = call.pre

C2_Witness ==
    /\ call.made /\ ~call.sld_value.some /\ CallAttr.some /\ CallRow # 0
    /\ ncalls = 2

\* C3: when the import returns, every name a contrast references resolves in the
\* corresponding collection, except a bulk reference of a dataset whose SLD was
\* unknown (no model of at least 2 layers).  Contrasts carry no model layer names.
SldKnownFor(d) == d.model.kind = "layers" /\ Len(d.model.layers) >= 2

C3_NoDanglingReference ==
    pc = "returned" =>
        \A k \in 1..Len(project.contrasts) :
            LET c == project.contrasts[k]
            IN  /\ c.background \in Names(project.backgrounds)
                /\ c.resolution \in Names(project.resolutions)
                /\ c.scalefactor \in Names(project.scalefactors)
                /\ c.data \in Names(project.data)
                /\ c.bulk_in \in Names(project.bulk_in) \/ ~SldKnownFor(sources[k])
                /\ c.bulk_out \in Names(project.bulk_out) \/ ~SldKnownFor(sources[k])
                /\ DOMAIN c = {"name", "background", "resolution", "scalefactor",
                               "bulk_in", "bulk_out", "data"}

\* a two-dataset import returned; the second dataset supplied known SLDs whose
\* parameters had to be created, the first left a dangling bulk_in reference
C3_Witness ==
    /\ pc = "returned" /\ Len(project.contrasts) = 2
    /\ ~SldKnownFor(sources[1]) /\ SldKnownFor(sources[2])
    /\ project.contrasts[1].bulk_in \notin Names(project.bulk_in)
    /\ project.contrasts[2].bulk_in = <<"S","L","D"," ","S","i">>
    /\ project.contrasts[2].bulk_in \in Names(project.bulk_in)

C6_OneContrastPerDataset ==
    pc = "returned" =>
        /\ Len(project.contrasts) = n
        /\ Len(project.data) = n
        /\ Len(sources) = n
        /\ \A k \in 1..n :
             LET clean == SanitizeName(sources[k].name, <<>>)
                 want  == IF clean = <<>> THEN <<"C","o","n","t","r","a","s","t"," ">> \o Digits(k) ELSE clean
             IN  /\ project.contrasts[k].name = want
                 /\ project.contrasts[k].data = want
                 /\ project.data[k].name = want

C6_Witness ==
    /\ pc = "returned" /\ n = 2
    /\ project.contrasts[1].name = <<"a"," ","b">>
    /\ sources[1].name = Some(<<" ","a","\t"," ","b"," ">>)
    /\ project.contrasts[2].name = <<"C","o","n","t","r","a","s","t"," ","2">>

\* C7: when the SLD of a dataset's bulk-in or bulk-out layer cannot be computed,
\* the merge for that role treats it as unknown: it modifies no existing
\* parameter and creates none.
SldFails(material) == ~material.some \/ material.val.sld.kind # "value"

C7_FailedSldIsUnknown ==
    /\ (pc = "merge_out" /\ SldKnownFor(ds) /\ SldFails(ds.model.layers[1].material))
          => call.post = call.pre
    /\ (pc = "append" /\ SldKnownFor(ds)
          /\ SldFails(ds.model.layers[Len(ds.model.layers)].material))
          => call.post = call.pre

\* C8 as stated: a merge with a known SLD v and no parameter of the reference name
\* appends exactly one parameter [ref, min(.95v, 1.05v), v, max(.95v, 1.05v), not
\* fitted] to the role's container and returns ref, where ref is the name with
\* "SLD " put in front unless the name already begins with "SLD ".
C8_CreatesLiteralRef ==
    LET ref == LiteralRef(call.bulk_name)
        v   == call.sld_value.val
        a   == CallAttr.val
    IN  (call.made /\ call.sld_value.some /\ CallAttr.some
            /\ ref \notin Names(call.pre[a]))
        => /\ call.ret = ref
           /\ call.post = [call.pre EXCEPT ![a] =
                 Append(@, [name |-> ref, min |-> Min2((95 * v) \div 100, (105 * v) \div 100),
                            value |-> v, max |-> Max2((95 * v) \div 100, (105 * v) \div 100),
                            fit |-> FALSE])]

\* C8 amended: the same, where ref is the name with "SLD " put in front unless the
\* name already begins with "SLD " in any letter case ("sld D2O" is kept as it is).
C8_CreatesAnyCaseRef ==
    LET ref == AnyCaseRef(call.bulk_name)
        v   == call.sld_value.val
        a   == CallAttr.val
    IN  (call.made /\ call.sld_value.some /\ CallAttr.some
            /\ ref \notin Names(call.pre[a]))
        => /\ call.ret = ref
           /\ call.post = [call.pre EXCEPT ![a] =
                 Append(@, [name |-> ref, min |-> Min2((95 * v) \div 100, (105 * v) \div 100),
                            value |-> v, max |-> Max2((95 * v) \div 100, (105 * v) \div 100),
                            fit |-> FALSE])]

\* a parameter was created from a negative SLD under a lower-case prefixed name
C8_Witness ==
    /\ call.made /\ CallAttr.some
    /\ call.sld_value = Some(-20)
    /\ call.bulk_name = <<"s","l","d"," ","D","2","O">>
    /\ call.ret \notin Names(call.pre[CallAttr.val])
    /\ Len(call.post[CallAttr.val]) = Len(call.pre[CallAttr.val]) + 1

\* C9: a merge with an unknown SLD and no parameter of the reference name, or on a
\* project without a container for the role, creates nothing, leaves the whole
\* project unchanged and still returns the reference name.
C9_UnknownAbsentCreatesNothing ==
    (call.made /\ (~CallAttr.some
                    \/ (~call.sld_value.some
                          /\ AnyCaseRef(call.bulk_name) \notin Names(call.pre[CallAttr.val]))))
    => /\ call.post = call.pre
       /\ call.ret = AnyCaseRef(call.bulk_name)

C9_Witness ==
    /\ call.made /\ CallAttr.some /\ ~call.sld_value.some
    /\ call.pre[CallAttr.val] # <<>>
    /\ call.ret \notin Names(call.pre[CallAttr.val])

\* C10: all contrasts of one import carry the same bulk_in reference.
C10_SameBulkIn ==
    pc # "start" =>
        \A x, y \in 1..Len(project.contrasts) :
            project.contrasts[x].bulk_in = project.contrasts[y].bulk_in


\* whether the model of dataset d resolves to a stack with both bulk layers
Resolved(d) == d.model.kind = "layers" /\ Len(d.model.layers) >= 2

\* C11: the bulk_out reference of every contrast comes from the last layer of its
\* own dataset's model; when that model's resolution raises it comes from the first
\* known bulk identifier found in the contrast name, and only when there is none
\* from the default "D2O".
C11_BulkOutPerDataset ==
    pc = "returned" =>
        \A k \in 1..Len(project.contrasts) :
            LET d    == sources[k]
                c    == project.contrasts[k]
                last == d.model.layers[Len(d.model.layers)]
                hit  == FirstKnownBulk(c.name)
            IN  /\ Resolved(d) =>
                     c.bulk_out = SLDPrefix \o InferBulkNameFromLayer(last, <<"D","2","O">>)
                /\ (d.model.kind = "raises" /\ hit.some) => c.bulk_out = SLDPrefix \o hit.val
                /\ (d.model.kind = "raises" /\ ~hit.some) => c.bulk_out = SLDD2O


\* C12: an exception of a dataset's model resolution never aborts the import: the
\* loop only stops on a malformed data array, a dataset whose model raised still
\* gets its data record and its contrast, with the default (or name-derived) bulk
\* references, and a returned import has processed every dataset of the file.
C12_ModelErrorNeverAborts ==
    /\ (pc = "raised" /\ sources # <<>> /\ i <= n) =>
            ShapeMalformed(sources[Len(sources)].data)
    /\ \A k \in 1..Len(sources) :
            (sources[k].model.kind = "raises" /\ k < i) =>
                /\ Len(project.data) >= k /\ Len(project.contrasts) >= k
                /\ project.contrasts[k].data = project.data[k].name
                /\ project.data[k].data = EnsureNx3(sources[k].data)
                /\ project.contrasts[k].bulk_in = SLDAir
                /\ LET hit == FirstKnownBulk(project.contrasts[k].name)
                   IN  \/ project.contrasts[k].bulk_out = SLDD2O
                       \/ hit.some /\ project.contrasts[k].bulk_out = SLDPrefix \o hit.val
    /\ pc = "returned" =>
            /\ Len(sources) = n
            /\ Len(project.contrasts) = n
            /\ Len(project.data) = n

C12_Witness ==
    /\ pc = "returned" /\ n = 2
    /\ sources[1].model.kind = "raises"
    /\ Len(project.contrasts) = 2


\* C13: a dataset whose data array is not two-dimensional with at least 2 columns
\* ends the import with a ValueError whose message quotes that dataset's contrast
\* name; neither that dataset nor a later one adds a data record or a contrast, and
\* the call does not return a project.
C13_MalformedDataAborts ==
    \A k \in 1..Len(sources) :
        ShapeMalformed(sources[k].data) =>
            /\ k = Len(sources)
            /\ pc = "raised"
            /\ error.type = "ValueError"
            /\ Contains(error.message,
                        <<"'">> \o SanitizeName(sources[k].name, ContrastFallback(k)) \o <<"'">>)
            /\ Len(project.data) = k - 1
            /\ Len(project.contrasts) = k - 1

C13_Witness ==
    /\ pc = "raised" /\ Len(sources) = 2
    /\ ShapeMalformed(sources[2].data)
    /\ Len(project.contrasts) = 1


\* the collections create_project fills with placeholders
Placeholders == {"contrasts", "data", "layers"}

\* C15: after a successful import none of the contrasts, data records and layers
\* the base project held before the call is left in the project.
C15_PlaceholdersDiscarded ==
    pc = "returned" =>
        \A a \in Placeholders :
            \A k \in 1..Len(project[a]) : \A j \in 1..Len(base[a]) :
                project[a][k] # base[a][j]

\* the Background, Resolution and Scalefactor entities and their parameter rows
FrameEntities == {"backgrounds", "resolutions"}
FrameRows == {"scalefactors", "background_parameters", "resolution_parameters"}

\* the value of a row moved to the nearer end of its own range
Clamped(row) == Max2(row.min, Min2(row.max, row.value))

ContrastModel(c) == IF "model" \in DOMAIN c THEN c.model ELSE <<>>

\* C17: when dataset 1 resolves to a stack, each layer strictly between the first
\* and the last becomes one layer of the project, in stack order, and every
\* contrast of the import has the list of the names of those layers as its model.
C17_SharedMiddleLayers ==
    (pc = "returned" /\ Len(sources) >= 1 /\ Resolved(sources[1])) =>
        LET middle == Len(sources[1].model.layers) - 2
            first  == Len(base.layers)
            new    == SubSeq(project.layers, first + 1, Len(project.layers))
        IN  /\ Len(project.layers) = first + middle
            /\ \A c \in 1..Len(project.contrasts) :
                    ContrastModel(project.contrasts[c]) = [k \in 1..Len(new) |-> new[k].name]


\* the prologue (folders and copy) was passed
Prepared == pc \in {"clear", "loop", "merge_in", "merge_out", "append", "returned"}

\* the folders and the copy, as claimed and as the code has them: once the prologue
\* is passed both folders exist, the copy was made exactly when the two canonical
\* paths differ, and up to that point the project is as it was passed in
FoldersAndCopy ==
    /\ Prepared => fs.dirs /\ (fs.copied <=> ~fs.same)
    /\ pc = "clear" => project = base
    /\ fs.copied => fs.source_ok
    /\ (pc # "start" /\ ~fs.source_ok) => pc \in {"clear", "raised"}

\* C18 as claimed: the folders are created and the file is copied before any change
\* of the project, the copy is skipped exactly when the two canonical paths are
\* identical, and a missing or unreadable source ends the import with the I/O
\* error while the base project's collections are still uncleared.
C18_CopyBeforeMutation ==
    /\ FoldersAndCopy
    /\ (pc = "raised" /\ ~fs.source_ok) =>
            /\ error.type = "OSError"
            /\ project = base

\* C18 as the code has it: as claimed, but a missing or unreadable source is found
\* before the collections are cleared only when the copy is attempted; when the
\* two paths are identical the loader finds it, after contrasts and data were
\* cleared (nothing else of the project has changed).
C18_CopyBeforeMutationUnlessSamePath ==
    /\ FoldersAndCopy
    /\ (pc = "raised" /\ ~fs.source_ok) =>
            /\ error.type = "OSError"
            /\ (~fs.same \/ ~fs.dirs) => project = base
            /\ (fs.same /\ fs.dirs) =>
                    project = [base EXCEPT !.contrasts = <<>>, !.data = <<>>]

C18_Witness ==
    /\ pc = "raised" /\ fs.dirs /\ fs.same /\ ~fs.source_ok
    /\ error.type = "OSError"
    /\ base.contrasts # <<>> /\ project.contrasts = <<>>


StoredFrame(k) ==
    LET src == sources[k].data
        out == project.data[k].data
    IN  /\ out.ndim = 2 /\ out.ncols = 3
        /\ Len(out.rows) = Len(src.rows)
        /\ \A r \in 1..Len(src.rows) :
                /\ Len(out.rows[r]) = 3
                /\ out.rows[r][1] = src.rows[r][1]
                /\ out.rows[r][2] = src.rows[r][2]
                /\ src.ncols # 2 => out.rows[r][3] = src.rows[r][3]

\* dr is max(1e-12, 0.05 |R|) of a reflectivity R that is a number
IsFlooredFivePercent(dr, R) ==
    /\ dr # NaN /\ dr > 0
    /\ 20 * dr >= Abs(R)
    /\ dr = 1 \/ 20 * dr = Abs(R)

\* C20 as claimed: a dataset with 2 columns (Q, R) is stored with 3 columns, Q and
\* R as read and in the same row order, the third being max(1e-12, 0.05 |R|), which
\* is positive; a dataset with 3 or more columns is stored as its first 3 columns.
C20_ThreeColumns ==
    Prepared /\ pc # "clear" =>
        \A k \in 1..Len(project.data) :
            /\ StoredFrame(k)
            /\ sources[k].data.ncols = 2 =>
                    \A r \in 1..Len(sources[k].data.rows) :
                        IsFlooredFivePercent(project.data[k].data.rows[r][3],
                                             sources[k].data.rows[r][2])

\* C20 as the code has it: as claimed for every reflectivity that is a number; a
\* reflectivity that is nan gets the uncertainty nan, which is not positive.
C20_ThreeColumnsNanPropagates ==
    Prepared /\ pc # "clear" =>
        \A k \in 1..Len(project.data) :
            /\ StoredFrame(k)
            /\ sources[k].data.ncols = 2 =>
                    \A r \in 1..Len(sources[k].data.rows) :
                        LET R  == sources[k].data.rows[r][2]
                            dr == project.data[k].data.rows[r][3]
                        IN  IF R = NaN THEN dr = NaN ELSE IsFlooredFivePercent(dr, R)

C20_Witness ==
    /\ pc = "returned"
    /\ \E k \in 1..Len(project.data) :
            /\ sources[k].data.ncols = 2
            /\ \E r \in 1..Len(sources[k].data.rows) :
                    /\ sources[k].data.rows[r][2] = 0
                    /\ project.data[k].data.rows[r] = <<sources[k].data.rows[r][1], 0, 1>>
            /\ \E r \in 1..Len(sources[k].data.rows) :
                    /\ sources[k].data.rows[r][2] = NaN
                    /\ project.data[k].data.rows[r][3] = NaN


\* the known bulk identifiers that are a case-insensitive substring of the text x,
\* when x is a string with something other than blanks in it
KnownIn(x) ==
    IF x.some /\ Strip(x.val) # <<>>
    THEN {KNOWN_BULKS[k] : k \in {m \in 1..Len(KNOWN_BULKS) :
                                    Contains(LowerStr(x.val), LowerStr(KNOWN_BULKS[m]))}}
    ELSE {}

\* whether the formula x is a string that holds the text p, whatever the case
FormulaHas(x, p) == x.some /\ Strip(x.val) # <<>> /\ Contains(LowerStr(x.val), p)

\* C21: the inferred bulk name is a known bulk found in the material name; else one
\* found in the layer's original name; else D2O or H2O when the formula holds "d2o"
\* or "h2o"; else the fallback.  It is a known bulk or the fallback, and a match on
\* the material name is never overridden.
C21_InferencePriority ==
    (pc = "infer" /\ call.made) =>
        LET mat     == call.layer_obj.material
            byName  == IF mat.some THEN KnownIn(mat.val.name) ELSE {}
            byOrig  == KnownIn(call.layer_obj.original_name)
            formula == IF mat.some THEN mat.val.formula ELSE None
        IN  /\ call.ret \in {KNOWN_BULKS[k] : k \in 1..Len(KNOWN_BULKS)} \cup {call.fallback}
            /\ IF byName # {} THEN call.ret \in byName
               ELSE IF byOrig # {} THEN call.ret \in byOrig
               ELSE IF FormulaHas(formula, <<"d","2","o">>) THEN call.ret = <<"D","2","O">>
               ELSE IF FormulaHas(formula, <<"h","2","o">>) THEN call.ret = <<"H","2","O">>
               ELSE call.ret = call.fallback

C21_Witness ==
    /\ pc = "infer" /\ call.made
    /\ call.layer_obj.material.some
    /\ call.layer_obj.material.val.name = Some(<<"S","i","l","i","c","o","n">>)
    /\ call.layer_obj.original_name = Some(<<"h","2","o"," ","b","u","f">>)
    /\ call.layer_obj.material.val.formula = Some(<<"D","2","O">>)
    /\ call.ret = <<"S","i">>


\* the dataset d has no model, or a model that resolves to fewer than 2 layers
NoUsableModel(d) ==
    \/ d.model.kind = "none"
    \/ d.model.kind = "layers" /\ Len(d.model.layers) < 2

\* C25: for a dataset without a model, or whose model resolves to fewer than 2
\* layers, nothing is taken from the model: the bulk names are the defaults, both
\* merges are made with an unknown SLD and leave the project as it was, and the
\* contrast references "SLD Air" and "SLD D2O".
C25_NoModelFallsBack ==
    /\ (pc \in {"merge_in", "merge_out", "append"} /\ NoUsableModel(ds)) =>
            /\ bulk_in_name = <<"A","i","r">> /\ bulk_out_name = <<"D","2","O">>
            /\ ~bulk_in_sld.some /\ ~bulk_out_sld.some
    /\ (pc \in {"merge_out", "append"} /\ NoUsableModel(ds)) =>
            /\ call.made /\ ~call.sld_value.some
            /\ call.post = call.pre /\ project = call.pre
            /\ call.ret = IF pc = "merge_out" THEN SLDAir ELSE SLDD2O
    /\ (Prepared /\ pc # "clear") =>
            \A k \in 1..Len(project.contrasts) :
                NoUsableModel(sources[k]) =>
                    /\ project.contrasts[k].bulk_in = SLDAir
                    /\ project.contrasts[k].bulk_out = SLDD2O

C25_Witness ==
    /\ pc = "returned" /\ Len(project.contrasts) = 2
    /\ sources[1].model.kind = "none"
    /\ sources[2].model.kind = "layers" /\ Len(sources[2].model.layers) = 1
    /\ project.bulk_out # <<>>
    /\ project.bulk_out = base.bulk_out


\* (min, max, value) of a row
Triple(row) == <<row.min, row.max, row.value>>

\* C30: a merge on an existing parameter leaves its (min, max, value) either all as
\* before the call or all as derived from the supplied SLD v (the range 5% around
\* v, or the old range widened to hold v), and appends no second parameter of that
\* name.
C30_AtomicUpdate ==
    (call.made /\ CallAttr.some /\ CallRow # 0) =>
        LET old == call.pre[CallAttr.val][CallRow]
            new == call.post[CallAttr.val][CallRow]
            v   == call.sld_value.val
        IN  /\ \/ Triple(new) = Triple(old)
               \/ /\ call.sld_value.some
                  /\ Triple(new) \in { <<BulkLo(v), BulkHi(v), v>>,
                                        <<Min2(old.min, v), Max2(old.max, v), v>> }
            /\ Len(call.post[CallAttr.val]) = Len(call.pre[CallAttr.val])


\* C22: while a worker started from the dialog is still running the dialog starts
\* no second one: at most one worker runs at any time.
C22_OneWorkerAtATime == RunningWorkers <= 1

\* C26: an import started from the dialog with a readable, well-formed file calls
\* import_ort_project with the file path and a destination folder, and when its
\* worker has finished the model holds the imported project with results and the
\* success handler has initialised the user interface, with no failure message.
C26_DialogImportSucceeds ==
    /\ (app.origin = "dialog" /\ pc = "call") => Len(app.args) = 2
    /\ (app.origin = "dialog" /\ pc = "done") =>
            /\ app.model_project = "new" /\ app.results = "new"
            /\ app.ui_initialised
            /\ ~app.message.some


\* C23: MainWindowPresenter.save_project returns True exactly when the project
\* was written, and marks the undo stack clean only when it was written.
C23_SaveReturnsWhetherSaved ==
    app.last.op = "save" =>
        /\ app.last.ret <=> app.last.written
        /\ (app.clean /\ ~app.last.pre_clean) => app.last.written

\* C27: closing the window or opening a project dialog with unsaved changes
\* proceeds only after Discard, or after Save with the project written.
C27_NoSilentDrop ==
    (app.last.op \in {"close", "dialog"} /\ ~app.last.pre_clean /\ app.last.proceed) =>
        \/ app.last.reply = "Discard"
        \/ app.last.reply = "Save" /\ app.last.written

\* the first of results.json, controls.json, project.json that keeps the load from
\* going on, in the order they are loaded (a missing results.json does not)
FirstProblem(files) ==
    IF files.results \notin {"ok", "missing"} THEN files.results
    ELSE IF files.controls # "ok" THEN files.controls
    ELSE files.project

C28_LoadAllOrNothing ==
    app.last.op = "model_load" =>
        IF app.last.raised.some THEN app.model = app.last.pre_model
        ELSE LET path == CopyExampleProject(app.last.load_path)
             IN  /\ app.model.project = Some(path) /\ app.model.controls = Some(path)
                 /\ app.model.save_path = path
                 /\ app.model.results \in {Some(path), None}

C28_Witness ==
    /\ app.last.op = "model_load" /\ app.last.raised.some
    /\ app.last.files.results = "ok" /\ app.last.files.controls = "ok"
    /\ app.last.files.project = "bad_keys"
    /\ app.last.pre_model.project = Some("created")
    /\ app.model = app.last.pre_model

====
